---- MODULE Spec2Model ----
(***************************************************************************)
(* A model of src/src/main.rs: the spin Mutex<T> (new, with_lock), the     *)
(* stress test mutex_test that drives it, and the two-flag experiment of   *)
(* main.                                                                   *)
(*                                                                         *)
(* Memory model.  The program uses Rust (C++20) atomics, so a load is not  *)
(* bound to return the newest store.  The model follows the view-based     *)
(* operational reading of release/acquire: every location has a            *)
(* modification order, every context has a view (the newest write of each  *)
(* location it is aware of), a load may read any write not older than the  *)
(* context's view, a release store publishes the storing context's view,   *)
(* an acquire load that reads it joins that view, and a read-modify-write  *)
(* always reads the newest write.                                          *)
(*                                                                         *)
(* The mutex has one atomic location (locked) and one plain location (v).  *)
(* For a single atomic location coherence makes every execution            *)
(* equivalent to an interleaving, so locked is kept as its newest write;   *)
(* what Acquire and Release add, the visibility of the holder's writes to  *)
(* v, is kept as views on v.                                               *)
(***************************************************************************)
EXTENDS Integers, Sequences, FiniteSets, TLC

\* main.rs:9-10
LOCKED == TRUE
UNLOCKED == FALSE

\* mutex_test spawns 100 contexts (main.rs:138) of 1000 calls (main.rs:141);
\* the model runs NCtx contexts of MCalls calls.
NCtx == 2
MCalls == 2

Main == 0
Ctx == 1..NCtx
Threads == Ctx \cup {Main}

Unit == "unit"

VARIABLES
    locked,     \* Mutex.locked: the newest write of the flag
    lockedRel,  \* the view on v published with that write
    vHist,      \* Mutex.v: the writes of the payload, oldest first
    seen,       \* seen[t]: the newest write of v that context t is aware of
    pc,         \* pc[t]: the line context t is at
    frames,     \* frames[t]: t's with_lock calls in progress, innermost
                \* last: the closure f, the call's acquisition, body and
                \* release so far, and its local ret
    calls,      \* calls[t]: completed iterations of the for loop
    tmp,        \* tmp[t]: the value f read from *v
    out,        \* out[t]: what t's last with_lock call returned
    relVal,     \* the payload when the flag was last released
    race,       \* a plain access to v that did not see the newest write
    mem,        \* mem.x, mem.y: the writes of the flags x and y of main,
                \* oldest first, each with the view it publishes
    view,       \* view[t]: the newest write of x and of y that t is aware of
    z,          \* the counter z of main
    fpc,        \* fpc[t]: the line context t of main is at
    chk,        \* chk[t]: what observer t's check of the other flag read
    order,      \* the contexts of main that have ended, in that order
    zMain,      \* what main read from z (main.rs:117)
    rmem,       \* rmem.x, rmem.y: the writes of the counters x and y of
                \* too_relaxed, oldest first
    rview,      \* rview[t]: the newest write of x and of y that t is aware of
    rpc,        \* rpc[t]: the line context t of too_relaxed is at
    reg,        \* reg.t1, reg.t2: the locals r1 and r2 of the two closures
    r1,         \* too_relaxed's r1 (main.rs:169)
    r2          \* too_relaxed's r2 (main.rs:170)

mvars == <<locked, lockedRel, vHist, seen, pc, frames, calls, tmp, out,
           relVal, race>>

fvars == <<mem, view, z, fpc, chk, order, zMain>>

rvars == <<rmem, rview, rpc, reg, r1, r2>>

vars == <<mvars, fvars, rvars>>

Max(a, b) == IF a >= b THEN a ELSE b

RECURSIVE MaxOf(_, _)
MaxOf(f, S) ==
    IF S = {} THEN 0
    ELSE LET s == CHOOSE e \in S : TRUE
         IN  Max(f[s], MaxOf(f, S \ {s}))

\* The newest value of the payload.
V == vHist[Len(vHist)]

\* The innermost with_lock call of t, and its closure.
Top(t) == frames[t][Len(frames[t])]
Body(t) == IF frames[t] = <<>> THEN "none" ELSE Top(t).f

\* The innermost call of t records event e / sets its local ret.
Event(t, e) ==
    [frames EXCEPT ![t] = [@ EXCEPT ![Len(@)].ev = Append(@, e)]]
SetRet(fr, t, r) ==
    [fr EXCEPT ![t] = [@ EXCEPT ![Len(@)].ret = r]]

\* Mutex::new(t0), main.rs:20-25, and the spawn of the contexts: the flag is
\* UNLOCKED, the payload holds t0, and every context has seen that write.
MutexNew(t0) ==
    /\ locked = UNLOCKED
    /\ lockedRel = 1
    /\ vHist = <<t0>>
    /\ seen = [t \in Threads |-> 1]
    /\ relVal = t0
    /\ race = FALSE

\* main.rs:137-148: l = Mutex::new(0); the contexts are spawned.
InitMutexTest ==
    /\ MutexNew(0)
    /\ pc = [t \in Threads |-> IF t = Main THEN "join" ELSE "loop"]
    /\ frames = [t \in Threads |-> <<>>]
    /\ calls = [t \in Threads |-> 0]
    /\ tmp = [t \in Threads |-> 0]
    /\ out = [t \in Threads |-> Unit]

\* A call of with_lock(f) by context t, main.rs:26: control enters the while
\* condition.
Enter(t, f) ==
    /\ pc' = [pc EXCEPT ![t] = "cas"]
    /\ frames' = [frames EXCEPT
                    ![t] = Append(@, [f |-> f, ev |-> <<>>, ret |-> Unit])]

\* main.rs:141-145: one iteration of the for loop calls with_lock(|v| *v += 1).
LoopCall(t) ==
    /\ pc[t] = "loop"
    /\ calls[t] < MCalls
    /\ Enter(t, "incr")
    /\ UNCHANGED <<locked, lockedRel, vHist, seen, calls, tmp, out, relVal,
                   race>>
    /\ UNCHANGED <<fvars, rvars>>

\* main.rs:141: the range is exhausted and the context ends.
LoopExit(t) ==
    /\ pc[t] = "loop"
    /\ calls[t] = MCalls
    /\ pc' = [pc EXCEPT ![t] = "done"]
    /\ UNCHANGED <<locked, lockedRel, vHist, seen, frames, calls, tmp, out,
                   relVal, race>>
    /\ UNCHANGED <<fvars, rvars>>

\* Mutants of CasAcquire: a swap that does not compare, and a
\* compare-exchange whose success ordering is Relaxed.
CasAcquireBlind(t) ==
    /\ pc[t] = "cas"
    /\ locked' = LOCKED
    /\ seen' = [seen EXCEPT ![t] = Max(@, lockedRel)]
    /\ pc' = [pc EXCEPT ![t] = "store_locked"]
    /\ frames' = Event(t, "acq")
    /\ UNCHANGED <<lockedRel, vHist, calls, tmp, out, relVal, race>>
    /\ UNCHANGED <<fvars, rvars>>

CasAcquireRelaxed(t) ==
    /\ pc[t] = "cas"
    /\ locked = UNLOCKED
    /\ locked' = LOCKED
    /\ pc' = [pc EXCEPT ![t] = "store_locked"]
    /\ frames' = Event(t, "acq")
    /\ UNCHANGED <<lockedRel, vHist, seen, calls, tmp, out, relVal, race>>
    /\ UNCHANGED <<fvars, rvars>>

\* Another mutant of CasAcquire: the operation succeeds on UNLOCKED as a
\* load would, writing nothing.
CasAcquireNoWrite(t) ==
    /\ pc[t] = "cas"
    /\ locked = UNLOCKED
    /\ seen' = [seen EXCEPT ![t] = Max(@, lockedRel)]
    /\ pc' = [pc EXCEPT ![t] = "store_locked"]
    /\ frames' = Event(t, "acq")
    /\ UNCHANGED <<locked, lockedRel, vHist, calls, tmp, out, relVal, race>>
    /\ UNCHANGED <<fvars, rvars>>

\* main.rs:27-30: compare_exchange_weak(UNLOCKED, LOCKED, Acquire, Relaxed)
\* succeeds.  A read-modify-write reads the newest write; the Acquire load
\* joins the view published with it; the LOCKED it writes continues the
\* release sequence it read from.
CasAcquire(t) ==
    /\ pc[t] = "cas"
    /\ locked = UNLOCKED
    /\ locked' = LOCKED
    /\ seen' = [seen EXCEPT ![t] = Max(@, lockedRel)]
    /\ pc' = [pc EXCEPT ![t] = "store_locked"]
    /\ frames' = Event(t, "acq")
    /\ UNCHANGED <<lockedRel, vHist, calls, tmp, out, relVal, race>>
    /\ UNCHANGED <<fvars, rvars>>

\* main.rs:27-31: compare_exchange_weak fails because the flag is LOCKED;
\* the Relaxed failure load joins nothing; control enters the inner loop.
CasFailLocked(t) ==
    /\ pc[t] = "cas"
    /\ locked = LOCKED
    /\ pc' = [pc EXCEPT ![t] = "poll"]
    /\ UNCHANGED <<locked, lockedRel, vHist, seen, frames, calls, tmp, out,
                   relVal, race>>
    /\ UNCHANGED <<fvars, rvars>>

\* Mutant of CasFailSpurious: the failed operation writes LOCKED.
CasFailSpuriousWrites(t) ==
    /\ pc[t] = "cas"
    /\ locked = UNLOCKED
    /\ locked' = LOCKED
    /\ pc' = [pc EXCEPT ![t] = "poll"]
    /\ UNCHANGED <<lockedRel, vHist, seen, frames, calls, tmp, out, relVal,
                   race>>
    /\ UNCHANGED <<fvars, rvars>>

\* main.rs:27-31: compare_exchange_weak fails spuriously: the flag is
\* UNLOCKED and stays so; control enters the inner loop.
CasFailSpurious(t) ==
    /\ pc[t] = "cas"
    /\ locked = UNLOCKED
    /\ pc' = [pc EXCEPT ![t] = "poll"]
    /\ UNCHANGED <<locked, lockedRel, vHist, seen, frames, calls, tmp, out,
                   relVal, race>>
    /\ UNCHANGED <<fvars, rvars>>

\* Mutant of PollLocked: the waiting context stores UNLOCKED.
PollLockedReleases(t) ==
    /\ pc[t] = "poll"
    /\ locked = LOCKED
    /\ locked' = UNLOCKED
    /\ UNCHANGED <<lockedRel, vHist, seen, pc, frames, calls, tmp, out,
                   relVal, race>>
    /\ UNCHANGED <<fvars, rvars>>

\* main.rs:35: the Relaxed load returns LOCKED and the inner loop goes round.
PollLocked(t) ==
    /\ pc[t] = "poll"
    /\ locked = LOCKED
    /\ UNCHANGED mvars
    /\ UNCHANGED <<fvars, rvars>>

\* Mutant of PollUnlocked: the inner loop goes round although the load
\* returned UNLOCKED.
PollUnlockedStays(t) ==
    /\ pc[t] = "poll"
    /\ locked = UNLOCKED
    /\ UNCHANGED mvars
    /\ UNCHANGED <<fvars, rvars>>

\* Mutant of PollUnlocked: the inner loop ends when the load returns LOCKED.
PollInverted(t) ==
    /\ pc[t] = "poll"
    /\ locked = LOCKED
    /\ pc' = [pc EXCEPT ![t] = "cas"]
    /\ UNCHANGED <<locked, lockedRel, vHist, seen, frames, calls, tmp, out,
                   relVal, race>>
    /\ UNCHANGED <<fvars, rvars>>

\* Mutant of PollUnlocked: the inner loop ends whatever the load returned.
PollLeaves(t) ==
    /\ pc[t] = "poll"
    /\ pc' = [pc EXCEPT ![t] = "cas"]
    /\ UNCHANGED <<locked, lockedRel, vHist, seen, frames, calls, tmp, out,
                   relVal, race>>
    /\ UNCHANGED <<fvars, rvars>>

\* main.rs:35: the Relaxed load returns UNLOCKED; back to the while condition.
PollUnlocked(t) ==
    /\ pc[t] = "poll"
    /\ locked = UNLOCKED
    /\ pc' = [pc EXCEPT ![t] = "cas"]
    /\ UNCHANGED <<locked, lockedRel, vHist, seen, frames, calls, tmp, out,
                   relVal, race>>
    /\ UNCHANGED <<fvars, rvars>>

\* Mutants of StoreLocked: control passes to line 61 without calling f, and
\* the store writes UNLOCKED.
StoreLockedSkipsBody(t) ==
    /\ pc[t] = "store_locked"
    /\ locked' = LOCKED
    /\ lockedRel' = 0
    /\ pc' = [pc EXCEPT ![t] = "release"]
    /\ UNCHANGED <<vHist, seen, frames, calls, tmp, out, relVal, race>>
    /\ UNCHANGED <<fvars, rvars>>

StoreLockedUnlocks(t) ==
    /\ pc[t] = "store_locked"
    /\ locked' = UNLOCKED
    /\ lockedRel' = 0
    /\ pc' = [pc EXCEPT ![t] = "body"]
    /\ UNCHANGED <<vHist, seen, frames, calls, tmp, out, relVal, race>>
    /\ UNCHANGED <<fvars, rvars>>

\* main.rs:59: locked.store(LOCKED, Relaxed); a Relaxed store publishes no
\* view.  Control reaches the call of f.
StoreLocked(t) ==
    /\ pc[t] = "store_locked"
    /\ locked' = LOCKED
    /\ lockedRel' = 0
    /\ pc' = [pc EXCEPT ![t] = "body"]
    /\ UNCHANGED <<vHist, seen, frames, calls, tmp, out, relVal, race>>
    /\ UNCHANGED <<fvars, rvars>>

\* A plain read of *v by t (main.rs:60, &mut *self.v.get()): the newest write
\* when t has seen it, otherwise (a data race) any write not older than t's
\* view.
ReadChoices(t) == { vHist[i] : i \in seen[t]..Len(vHist) }

\* main.rs:143, the read half of *v += 1, the first step of f.
IncrRead(t) ==
    /\ pc[t] = "body"
    /\ Body(t) = "incr"
    /\ \E r \in ReadChoices(t) : tmp' = [tmp EXCEPT ![t] = r]
    /\ race' = (race \/ seen[t] # Len(vHist))
    /\ frames' = Event(t, "body")
    /\ pc' = [pc EXCEPT ![t] = "incr_write"]
    /\ UNCHANGED <<locked, lockedRel, vHist, seen, calls, out, relVal>>
    /\ UNCHANGED <<fvars, rvars>>

\* main.rs:143, the write half of *v += 1; f returns ().
IncrWrite(t) ==
    /\ pc[t] = "incr_write"
    /\ vHist' = Append(vHist, tmp[t] + 1)
    /\ seen' = [seen EXCEPT ![t] = Len(vHist) + 1]
    /\ race' = (race \/ seen[t] # Len(vHist))
    /\ frames' = SetRet(frames, t, Unit)
    /\ pc' = [pc EXCEPT ![t] = "release"]
    /\ UNCHANGED <<locked, lockedRel, calls, tmp, out, relVal>>
    /\ UNCHANGED <<fvars, rvars>>

\* main.rs:152: f is |v| *v, which reads the payload and returns it.
ReadBody(t) ==
    /\ pc[t] = "body"
    /\ Body(t) = "read"
    /\ \E r \in ReadChoices(t) :
        /\ tmp' = [tmp EXCEPT ![t] = r]
        /\ frames' = SetRet(Event(t, "body"), t, r)
    /\ race' = (race \/ seen[t] # Len(vHist))
    /\ pc' = [pc EXCEPT ![t] = "release"]
    /\ UNCHANGED <<locked, lockedRel, vHist, seen, calls, out, relVal>>
    /\ UNCHANGED <<fvars, rvars>>

\* Mutants of Release: the store is Relaxed, and the store writes LOCKED.
ReleaseRelaxed(t) ==
    /\ pc[t] = "release"
    /\ locked' = UNLOCKED
    /\ lockedRel' = 0
    /\ relVal' = V
    /\ frames' = Event(t, "rel")
    /\ pc' = [pc EXCEPT ![t] = "ret"]
    /\ UNCHANGED <<vHist, seen, calls, tmp, out, race>>
    /\ UNCHANGED <<fvars, rvars>>

ReleaseStoresLocked(t) ==
    /\ pc[t] = "release"
    /\ locked' = LOCKED
    /\ lockedRel' = seen[t]
    /\ relVal' = V
    /\ frames' = Event(t, "rel")
    /\ pc' = [pc EXCEPT ![t] = "ret"]
    /\ UNCHANGED <<vHist, seen, calls, tmp, out, race>>
    /\ UNCHANGED <<fvars, rvars>>

\* Another mutant of Release: with_lock returns without the store.
ReleaseSkipped(t) ==
    /\ pc[t] = "release"
    /\ relVal' = V
    /\ frames' = Event(t, "rel")
    /\ pc' = [pc EXCEPT ![t] = "ret"]
    /\ UNCHANGED <<locked, lockedRel, vHist, seen, calls, tmp, out, race>>
    /\ UNCHANGED <<fvars, rvars>>

\* main.rs:61: locked.store(UNLOCKED, Release) publishes t's view of v.
Release(t) ==
    /\ pc[t] = "release"
    /\ locked' = UNLOCKED
    /\ lockedRel' = seen[t]
    /\ relVal' = V
    /\ frames' = Event(t, "rel")
    /\ pc' = [pc EXCEPT ![t] = "ret"]
    /\ UNCHANGED <<vHist, seen, calls, tmp, out, race>>
    /\ UNCHANGED <<fvars, rvars>>

\* Where control goes when a with_lock call of t returns: to the for loop
\* (main.rs:141), to the assert_eq (main.rs:152), or, from a nested call,
\* to the end of the enclosing closure, which returns ().
ReturnTo(t) ==
    IF Len(frames[t]) > 1 THEN "release"
    ELSE IF t = Main THEN "assert"
    ELSE "loop"

\* main.rs:62: with_lock returns ret to its caller; the closure and what it
\* read are gone.
Return(t) ==
    /\ pc[t] = "ret"
    /\ out' = [out EXCEPT ![t] = Top(t).ret]
    /\ frames' = [frames EXCEPT ![t] = SubSeq(@, 1, Len(@) - 1)]
    /\ calls' = [calls EXCEPT ![t] = IF Len(frames[t]) = 1 /\ t \in Ctx
                                     THEN @ + 1 ELSE @]
    /\ pc' = [pc EXCEPT ![t] = ReturnTo(t)]
    /\ tmp' = [tmp EXCEPT ![t] = 0]
    /\ UNCHANGED <<locked, lockedRel, vHist, seen, relVal, race>>
    /\ UNCHANGED <<fvars, rvars>>

\* main.rs:149-152: every handle is joined, which makes the writes of the
\* joined contexts visible, and main calls with_lock(|v| *v).
JoinAll ==
    /\ pc[Main] = "join"
    /\ \A t \in Ctx : pc[t] = "done"
    /\ seen' = [seen EXCEPT ![Main] = Max(@, MaxOf(seen, Ctx))]
    /\ Enter(Main, "read")
    /\ UNCHANGED <<locked, lockedRel, vHist, calls, tmp, out, relVal, race>>
    /\ UNCHANGED <<fvars, rvars>>

\* main.rs:152: assert_eq!(l.with_lock(|v| *v), 100 * 1000).
AssertEq ==
    /\ pc[Main] = "assert"
    /\ pc' = [pc EXCEPT ![Main] = IF out[Main] = NCtx * MCalls
                                  THEN "passed" ELSE "panicked"]
    /\ UNCHANGED <<locked, lockedRel, vHist, seen, frames, calls, tmp, out,
                   relVal, race>>
    /\ UNCHANGED <<fvars, rvars>>

\* main.rs:26-63: one step of with_lock by context t.
WithLock(t) ==
    \/ CasAcquire(t)
    \/ CasFailLocked(t)
    \/ CasFailSpurious(t)
    \/ PollLocked(t)
    \/ PollUnlocked(t)
    \/ StoreLocked(t)
    \/ IncrRead(t)
    \/ IncrWrite(t)
    \/ ReadBody(t)
    \/ Release(t)
    \/ Return(t)

\* One step of context t in mutex_test.
Step(t) ==
    \/ LoopCall(t)
    \/ LoopExit(t)
    \/ WithLock(t)

----------------------------------------------------------------------------
(***************************************************************************)
(* with_lock takes any closure f (main.rs:26).  Besides the two closures   *)
(* of mutex_test the contexts below pass closures that call with_lock on   *)
(* the same Mutex again, that never return, and that panic.                *)
(***************************************************************************)
Closures == {"incr", "read", "reenter", "hang", "panic"}

\* Each of these contexts makes ApiCalls calls.
ApiCalls == 1

\* A context calls with_lock(f) with a closure of its choice.
ApiCall(t) ==
    /\ pc[t] = "loop"
    /\ calls[t] < ApiCalls
    /\ \E f \in Closures : Enter(t, f)
    /\ UNCHANGED <<locked, lockedRel, vHist, seen, calls, tmp, out, relVal,
                   race>>
    /\ UNCHANGED <<fvars, rvars>>

\* main.rs:60: f runs and calls with_lock(|v| *v += 1) on the same Mutex; the
\* nested call starts at its while condition with the flag as it is.
ReenterBody(t) ==
    /\ pc[t] = "body"
    /\ Body(t) = "reenter"
    /\ pc' = [pc EXCEPT ![t] = "cas"]
    /\ frames' = [Event(t, "body") EXCEPT
                    ![t] = Append(@, [f |-> "incr", ev |-> <<>>,
                                      ret |-> Unit])]
    /\ UNCHANGED <<locked, lockedRel, vHist, seen, calls, tmp, out, relVal,
                   race>>
    /\ UNCHANGED <<fvars, rvars>>

\* main.rs:60: f runs and never returns; line 61 is never reached.
HangBody(t) ==
    /\ pc[t] = "body"
    /\ Body(t) = "hang"
    /\ pc' = [pc EXCEPT ![t] = "hung"]
    /\ frames' = Event(t, "body")
    /\ UNCHANGED <<locked, lockedRel, vHist, seen, calls, tmp, out, relVal,
                   race>>
    /\ UNCHANGED <<fvars, rvars>>

\* Mutant of PanicBody: a guard releases the flag while the panic unwinds.
PanicBodyUnlocks(t) ==
    /\ pc[t] = "body"
    /\ Body(t) = "panic"
    /\ pc' = [pc EXCEPT ![t] = "panicked"]
    /\ locked' = UNLOCKED
    /\ lockedRel' = seen[t]
    /\ frames' = [frames EXCEPT ![t] = [@ EXCEPT
                    ![Len(@)].ev = Append(Append(@, "body"), "rel")]]
    /\ UNCHANGED <<vHist, seen, calls, tmp, out, relVal, race>>
    /\ UNCHANGED <<fvars, rvars>>

\* main.rs:60: f panics.  with_lock holds no guard, so the unwinding leaves
\* it without executing line 61 and the context ends.
PanicBody(t) ==
    /\ pc[t] = "body"
    /\ Body(t) = "panic"
    /\ pc' = [pc EXCEPT ![t] = "panicked"]
    /\ frames' = Event(t, "body")
    /\ UNCHANGED <<locked, lockedRel, vHist, seen, calls, tmp, out, relVal,
                   race>>
    /\ UNCHANGED <<fvars, rvars>>

\* The context has made its calls and ends.
ApiExit(t) ==
    /\ pc[t] = "loop"
    /\ calls[t] = ApiCalls
    /\ pc' = [pc EXCEPT ![t] = "done"]
    /\ UNCHANGED <<locked, lockedRel, vHist, seen, frames, calls, tmp, out,
                   relVal, race>>
    /\ UNCHANGED <<fvars, rvars>>

ApiStep(t) ==
    \/ ApiCall(t)
    \/ ApiExit(t)
    \/ WithLock(t)
    \/ ReenterBody(t)
    \/ HangBody(t)
    \/ PanicBody(t)

----------------------------------------------------------------------------
(***************************************************************************)
(* The two-flag experiment of main, main.rs:87-132.                        *)
(***************************************************************************)
Producers == {"tx", "ty"}
Observers == {"t1", "t2"}
Locs == {"x", "y"}

\* Mutant of Other: the observer checks the flag it has waited for.
OtherSame(o) == IF o = "t1" THEN "x" ELSE "y"

\* The flag a producer sets (main.rs:94, 98); the flag an observer waits for
\* (main.rs:102, 109) and the one it then checks (main.rs:103, 110).
Sets(p) == IF p = "tx" THEN "x" ELSE "y"
Own(o) == IF o = "t1" THEN "x" ELSE "y"
Other(o) == IF o = "t1" THEN "y" ELSE "x"

\* The join of two views.
Join(a, b) == [l \in Locs |-> Max(a[l], b[l])]

\* main.rs:93-113: the order in which main spawns the contexts.
SpawnOrder == <<"tx", "ty", "t1", "t2">>

\* main.rs:89-91: x and y are false, z is 0, and no context is spawned yet.
\* A spawned context starts aware of these first writes.
InitFlags ==
    /\ mem = [l \in Locs |->
                <<[val |-> FALSE, view |-> [k \in Locs |-> 1]]>>]
    /\ view = [t \in Producers \cup Observers |-> [l \in Locs |-> 1]]
    /\ z = 0
    /\ fpc = [t \in Producers \cup Observers \cup {"main"} |->
                IF t = "main" THEN "spawn" ELSE "unspawned"]
    /\ chk = [t \in Observers |-> FALSE]
    /\ order = <<>>
    /\ zMain = -1

\* The contexts main has spawned so far.
Spawned == {t \in Producers \cup Observers : fpc[t] # "unspawned"}

\* main.rs:93, 97, 101, 108: main spawns the next context; after the last
\* spawn it goes on to join t1.
MainSpawn ==
    /\ fpc["main"] = "spawn"
    /\ LET k == Cardinality(Spawned) + 1
           t == SpawnOrder[k]
       IN  fpc' = [fpc EXCEPT
                     ![t] = IF t \in Producers THEN "store" ELSE "spin",
                     !["main"] = IF k = Len(SpawnOrder) THEN "join_t1"
                                 ELSE "spawn"]
    /\ UNCHANGED <<mem, view, z, chk, order, zMain>>
    /\ UNCHANGED <<mvars, rvars>>

\* The writes of l that a load by t may read: those not older than the one
\* t is aware of.
LoadChoices(t, l) == view[t][l]..Len(mem[l])

\* t's view after a load(Acquire) of l that reads write i: t is aware of i
\* and of what the storing context had published with it.
AcquireView(t, l, i) ==
    Join([view[t] EXCEPT ![l] = Max(@, i)], mem[l][i].view)

\* main.rs:94, 98: the producer stores true with Release, publishing its
\* view, and ends.
ProducerStore(p) ==
    /\ fpc[p] = "store"
    /\ LET l == Sets(p)
           w == [view[p] EXCEPT ![l] = Len(mem[l]) + 1]
       IN  /\ mem' = [mem EXCEPT ![l] = Append(@, [val |-> TRUE, view |-> w])]
           /\ view' = [view EXCEPT ![p] = w]
    /\ fpc' = [fpc EXCEPT ![p] = "done"]
    /\ order' = Append(order, p)
    /\ UNCHANGED <<z, chk, zMain>>
    /\ UNCHANGED <<mvars, rvars>>

\* Mutant of ObserverSpin: the loop ends whatever the load read.
ObserverSpinNoWait(o) ==
    /\ fpc[o] = "spin"
    /\ \E i \in LoadChoices(o, Own(o)) :
        /\ view' = [view EXCEPT ![o] = AcquireView(o, Own(o), i)]
        /\ fpc' = [fpc EXCEPT ![o] = "check"]
    /\ UNCHANGED <<mem, z, chk, order, zMain>>
    /\ UNCHANGED <<mvars, rvars>>

\* main.rs:102, 109: one load(Acquire) of the observer's own flag in the
\* while condition; the loop ends when it reads true.
ObserverSpin(o) ==
    /\ fpc[o] = "spin"
    /\ \E i \in LoadChoices(o, Own(o)) :
        /\ view' = [view EXCEPT ![o] = AcquireView(o, Own(o), i)]
        /\ fpc' = [fpc EXCEPT ![o] = IF mem[Own(o)][i].val THEN "check"
                                      ELSE "spin"]
    /\ UNCHANGED <<mem, z, chk, order, zMain>>
    /\ UNCHANGED <<mvars, rvars>>

\* Mutant of ObserverCheck: the condition of the if is negated.
ObserverCheckNegated(o) ==
    /\ fpc[o] = "check"
    /\ \E i \in LoadChoices(o, Other(o)) :
        /\ view' = [view EXCEPT ![o] = AcquireView(o, Other(o), i)]
        /\ chk' = [chk EXCEPT ![o] = mem[Other(o)][i].val]
        /\ fpc' = [fpc EXCEPT ![o] = IF ~mem[Other(o)][i].val THEN "incr"
                                      ELSE "done"]
        /\ order' = IF ~mem[Other(o)][i].val THEN order ELSE Append(order, o)
    /\ UNCHANGED <<mem, z, zMain>>
    /\ UNCHANGED <<mvars, rvars>>

\* main.rs:103, 110: the load(Acquire) of the other flag in the if.
ObserverCheck(o) ==
    /\ fpc[o] = "check"
    /\ \E i \in LoadChoices(o, Other(o)) :
        /\ view' = [view EXCEPT ![o] = AcquireView(o, Other(o), i)]
        /\ chk' = [chk EXCEPT ![o] = mem[Other(o)][i].val]
        /\ fpc' = [fpc EXCEPT ![o] = IF mem[Other(o)][i].val THEN "incr"
                                      ELSE "done"]
        /\ order' = IF mem[Other(o)][i].val THEN order ELSE Append(order, o)
    /\ UNCHANGED <<mem, z, zMain>>
    /\ UNCHANGED <<mvars, rvars>>

\* Mutant of ObserverIncr: the if is a while, and the observer increments
\* again.
ObserverIncrAgain(o) ==
    /\ fpc[o] = "incr"
    /\ z' = z + 1
    /\ \E again \in BOOLEAN :
        /\ fpc' = [fpc EXCEPT ![o] = IF again THEN "incr" ELSE "done"]
        /\ order' = IF again THEN order ELSE Append(order, o)
    /\ UNCHANGED <<mem, view, chk, zMain>>
    /\ UNCHANGED <<mvars, rvars>>

\* main.rs:104, 111: z.fetch_add(1, Relaxed), a read-modify-write, which
\* reads the newest write of z; the observer ends.
ObserverIncr(o) ==
    /\ fpc[o] = "incr"
    /\ z' = z + 1
    /\ fpc' = [fpc EXCEPT ![o] = "done"]
    /\ order' = Append(order, o)
    /\ UNCHANGED <<mem, view, chk, zMain>>
    /\ UNCHANGED <<mvars, rvars>>

\* main.rs:114: t1.join() returns once t1 has ended.
MainJoinT1 ==
    /\ fpc["main"] = "join_t1"
    /\ fpc["t1"] = "done"
    /\ fpc' = [fpc EXCEPT !["main"] = "join_t2"]
    /\ UNCHANGED <<mem, view, z, chk, order, zMain>>
    /\ UNCHANGED <<mvars, rvars>>

\* main.rs:115: t2.join() returns once t2 has ended.
MainJoinT2 ==
    /\ fpc["main"] = "join_t2"
    /\ fpc["t2"] = "done"
    /\ fpc' = [fpc EXCEPT !["main"] = "load"]
    /\ UNCHANGED <<mem, view, z, chk, order, zMain>>
    /\ UNCHANGED <<mvars, rvars>>

\* main.rs:117: z.load(SeqCst); the joins have made the observers'
\* increments visible to main, so the load reads the newest write of z.
MainLoadZ ==
    /\ fpc["main"] = "load"
    /\ zMain' = z
    /\ fpc' = [fpc EXCEPT !["main"] = "done"]
    /\ UNCHANGED <<mem, view, z, chk, order>>
    /\ UNCHANGED <<mvars, rvars>>

\* main.rs:87-132: main.
FlagsNext ==
    \/ MainSpawn
    \/ \E p \in Producers : ProducerStore(p)
    \/ \E o \in Observers : ObserverSpin(o)
    \/ \E o \in Observers : ObserverCheck(o)
    \/ \E o \in Observers : ObserverIncr(o)
    \/ MainJoinT1
    \/ MainJoinT2
    \/ MainLoadZ

----------------------------------------------------------------------------
(***************************************************************************)
(* The relaxed-counters experiment of too_relaxed, main.rs:155-170.  Every *)
(* operation is Relaxed: a load reads any write not older than the         *)
(* context's view and nothing is published.  The store of t2 does not      *)
(* depend on its load and goes to another location, so the two may take    *)
(* effect in either order; the store of t1 writes what its load returned   *)
(* and so follows it.                                                      *)
(***************************************************************************)
Relaxers == {"t1", "t2"}

\* main.rs:155-156: x and y are 0 and no context is spawned yet.
InitRelaxed ==
    /\ rmem = [l \in Locs |-> <<0>>]
    /\ rview = [t \in Relaxers |-> [l \in Locs |-> 1]]
    /\ rpc = [t \in Relaxers \cup {"main"} |->
                IF t = "main" THEN "spawn_t1" ELSE "unspawned"]
    /\ reg = [t \in Relaxers |-> -1]
    /\ r1 = -1
    /\ r2 = -1

\* main.rs:157: spawn of t1.
SpawnT1 ==
    /\ rpc["main"] = "spawn_t1"
    /\ rpc' = [rpc EXCEPT !["main"] = "spawn_t2", !["t1"] = "start"]
    /\ UNCHANGED <<rmem, rview, reg, r1, r2>>
    /\ UNCHANGED <<mvars, fvars>>

\* main.rs:163: spawn of t2.
SpawnT2 ==
    /\ rpc["main"] = "spawn_t2"
    /\ rpc' = [rpc EXCEPT !["main"] = "join_t1", !["t2"] = "start"]
    /\ UNCHANGED <<rmem, rview, reg, r1, r2>>
    /\ UNCHANGED <<mvars, fvars>>

\* The writes of l that a Relaxed load by t may read.
RelaxedChoices(t, l) == rview[t][l]..Len(rmem[l])

\* A load(Relaxed) of l by t that reads write i into t's local.
RelaxedLoad(t, l, i) ==
    /\ reg' = [reg EXCEPT ![t] = rmem[l][i]]
    /\ rview' = [rview EXCEPT ![t][l] = i]
    /\ UNCHANGED rmem

\* A store(val, Relaxed) to l by t.
RelaxedStore(t, l, val) ==
    /\ rmem' = [rmem EXCEPT ![l] = Append(@, val)]
    /\ rview' = [rview EXCEPT ![t][l] = Len(rmem[l]) + 1]
    /\ UNCHANGED reg

\* main.rs:158: r1 = y.load(Relaxed).
T1Load ==
    /\ rpc["t1"] = "start"
    /\ \E i \in RelaxedChoices("t1", "y") : RelaxedLoad("t1", "y", i)
    /\ rpc' = [rpc EXCEPT !["t1"] = "loaded"]
    /\ UNCHANGED <<r1, r2>>
    /\ UNCHANGED <<mvars, fvars>>

\* T1Store storing the constant of t2 instead of what t1 loaded.
T1StoreConst ==
    /\ rpc["t1"] = "loaded"
    /\ RelaxedStore("t1", "x", 42)
    /\ rpc' = [rpc EXCEPT !["t1"] = "ret"]
    /\ UNCHANGED <<r1, r2>>
    /\ UNCHANGED <<mvars, fvars>>

\* main.rs:159: x.store(r1, Relaxed).
T1Store ==
    /\ rpc["t1"] = "loaded"
    /\ RelaxedStore("t1", "x", reg["t1"])
    /\ rpc' = [rpc EXCEPT !["t1"] = "ret"]
    /\ UNCHANGED <<r1, r2>>
    /\ UNCHANGED <<mvars, fvars>>

\* main.rs:160-161, 166-167: the closure of t returns its local and the
\* context finishes, once both of its operations have taken effect.
RelaxedReturn(t) ==
    /\ rpc[t] = "ret"
    /\ rpc' = [rpc EXCEPT ![t] = "done"]
    /\ UNCHANGED <<rmem, rview, reg, r1, r2>>
    /\ UNCHANGED <<mvars, fvars>>

\* main.rs:164: r2 = x.load(Relaxed), before or after the store of line 165
\* has taken effect.
T2Load ==
    /\ rpc["t2"] \in {"start", "stored"}
    /\ \E i \in RelaxedChoices("t2", "x") : RelaxedLoad("t2", "x", i)
    /\ rpc' = [rpc EXCEPT !["t2"] = IF rpc["t2"] = "start" THEN "loaded"
                                    ELSE "ret"]
    /\ UNCHANGED <<r1, r2>>
    /\ UNCHANGED <<mvars, fvars>>

\* T2Store storing another constant.
T2StoreOther ==
    /\ rpc["t2"] \in {"start", "loaded"}
    /\ RelaxedStore("t2", "y", 24)
    /\ rpc' = [rpc EXCEPT !["t2"] = IF rpc["t2"] = "start" THEN "stored"
                                    ELSE "ret"]
    /\ UNCHANGED <<r1, r2>>
    /\ UNCHANGED <<mvars, fvars>>

\* main.rs:165: y.store(42, Relaxed), after or before the load of line 164
\* has taken effect.
T2Store ==
    /\ rpc["t2"] \in {"start", "loaded"}
    /\ RelaxedStore("t2", "y", 42)
    /\ rpc' = [rpc EXCEPT !["t2"] = IF rpc["t2"] = "start" THEN "stored"
                                    ELSE "ret"]
    /\ UNCHANGED <<r1, r2>>
    /\ UNCHANGED <<mvars, fvars>>

\* main.rs:169: r1 = t1.join().unwrap().
JoinT1 ==
    /\ rpc["main"] = "join_t1"
    /\ rpc["t1"] = "done"
    /\ r1' = reg["t1"]
    /\ rpc' = [rpc EXCEPT !["main"] = "join_t2"]
    /\ UNCHANGED <<rmem, rview, reg, r2>>
    /\ UNCHANGED <<mvars, fvars>>

\* main.rs:170: r2 = t2.join().unwrap().
JoinT2 ==
    /\ rpc["main"] = "join_t2"
    /\ rpc["t2"] = "done"
    /\ r2' = reg["t2"]
    /\ rpc' = [rpc EXCEPT !["main"] = "done"]
    /\ UNCHANGED <<rmem, rview, reg, r1>>
    /\ UNCHANGED <<mvars, fvars>>

\* main.rs:155-170: too_relaxed.
RelaxedNext ==
    \/ SpawnT1
    \/ SpawnT2
    \/ T1Load
    \/ T1Store
    \/ T2Load
    \/ T2Store
    \/ \E t \in Relaxers : RelaxedReturn(t)
    \/ JoinT1
    \/ JoinT2

----------------------------------------------------------------------------
Init == InitMutexTest /\ InitFlags /\ InitRelaxed

\* main.rs:136-153: mutex_test.
Next ==
    \/ \E t \in Ctx : Step(t)
    \/ WithLock(Main)
    \/ JoinAll
    \/ AssertEq

Spec == Init /\ [][Next]_vars

\* The scheduler runs every context again and again, and compare_exchange_weak
\* does not fail spuriously for ever: a context whose compare-exchange keeps
\* failing while the flag is UNLOCKED also has attempts that succeed.
Fairness ==
    /\ \A t \in Ctx : WF_vars(Step(t))
    /\ WF_vars(WithLock(Main) \/ JoinAll \/ AssertEq)
    /\ \A t \in Threads :
        []<><<CasFailSpurious(t)>>_vars => []<><<CasAcquire(t)>>_vars

FairSpec == Spec /\ Fairness

ApiNext == \E t \in Ctx : ApiStep(t)

ApiSpec == Init /\ [][ApiNext]_vars

FlagsSpec == Init /\ [][FlagsNext]_vars

\* The two lock-free experiments of the crate, main (main.rs:87-132) and
\* too_relaxed (main.rs:155-170), as separate processes running side by side.
ExperimentsNext == RelaxedNext \/ FlagsNext

RelaxedSpec == Init /\ [][ExperimentsNext]_vars

----------------------------------------------------------------------------
\* t is between its successful compare-exchange and its release store.
Holds(t) ==
    \E i \in 1..Len(frames[t]) :
        LET ev == frames[t][i].ev
        IN  /\ \E k \in 1..Len(ev) : ev[k] = "acq"
            /\ \A k \in 1..Len(ev) : ev[k] # "rel"

\* t is executing f on the payload.
InBody(t) == pc[t] \in {"body", "incr_write"}

Waiting(t) == pc[t] \in {"cas", "poll"}

\* C1. Mutual exclusion: in every reachable state at most one context is
\* between its successful compare-exchange and its release store, hence at
\* most one is executing the body, spurious failures included.
C1_MutualExclusion ==
    /\ Cardinality({t \in Threads : Holds(t)}) <= 1
    /\ Cardinality({t \in Threads : InBody(t)}) <= 1
    /\ \A t \in Threads : InBody(t) => Holds(t)

\* A context is in the middle of its increment while another one, which has
\* completed a call before, polls the flag.
C1_Witness ==
    \E t, u \in Ctx :
        /\ t # u
        /\ pc[t] = "incr_write"
        /\ pc[u] = "poll"
        /\ calls[u] >= 1

\* C2. Once the NCtx contexts have finished their MCalls calls the payload is
\* NCtx * MCalls, and the value main's with_lock(|v| *v) returns passes the
\* assert_eq.
C2_FinalCount ==
    (\A t \in Ctx : pc[t] = "done") =>
        /\ V = NCtx * MCalls
        /\ pc[Main] \in {"assert", "passed"} => out[Main] = NCtx * MCalls
        /\ pc[Main] # "panicked"

C2_Witness == pc[Main] = "passed" /\ V = NCtx * MCalls

\* C3. No lost updates: the payload is accessed only by the one holder, the
\* value a body reads is the value the payload had at the preceding release
\* (the initial value for the first holder), nothing touches the payload
\* between the read and the write of an increment, and no access races.
C3_NoLostUpdate ==
    /\ ~race
    /\ \A t \in Threads :
        /\ InBody(t) => Holds(t) /\ \A u \in Threads \ {t} : ~Holds(u)
        /\ pc[t] = "incr_write" =>
            /\ tmp[t] = relVal
            /\ V = tmp[t]
            /\ seen[t] = Len(vHist)
        /\ (pc[t] = "release" /\ Body(t) = "read") => tmp[t] = relVal

\* A second holder has read the value the first one released.
C3_Witness ==
    \E t \in Ctx : pc[t] = "incr_write" /\ tmp[t] = relVal /\ relVal >= 1

\* The result of the closure of t's innermost call.
BodyResult(t) == IF Body(t) = "read" THEN tmp[t] ELSE Unit

\* C4. A with_lock call that returns has acquired, then invoked its body
\* once, then performed one release store, in this order, and hands the
\* body's result to its caller.
C4_CallShape ==
    /\ [](\A t \in Threads : pc[t] = "ret" =>
            /\ Top(t).ev = <<"acq", "body", "rel">>
            /\ Top(t).ret = BodyResult(t))
    /\ [][\A t \in Threads : (pc[t] = "ret" /\ pc'[t] # "ret") =>
            out'[t] = BodyResult(t)]_vars

\* main's call is about to return the count it read.
C4_Witness ==
    /\ pc[Main] = "ret"
    /\ Top(Main).ret = NCtx * MCalls

Nested(t) == Len(frames[t]) >= 2

\* C6. No re-entrancy: a with_lock call made from a body running inside
\* with_lock on the same Mutex never acquires and never runs its body; the
\* context stays in the retry loop for ever and the flag stays LOCKED.
C6_NoReentrancy ==
    /\ [](\A t \in Ctx : Nested(t) =>
            /\ locked = LOCKED
            /\ Waiting(t)
            /\ Top(t).ev = <<>>)
    /\ [][\A t \in Ctx : Nested(t) => Nested(t)' /\ locked' = LOCKED]_vars

\* The nested call has failed its compare-exchange and polls.
C6_Witness ==
    \E t \in Ctx : Nested(t) /\ pc[t] = "poll" /\ frames[t][1].f = "reenter"

\* The body of t's with_lock call did not return.
Stuck(t) == pc[t] \in {"hung", "panicked"}

\* C7. Once a body has failed to return (it hangs or panics) the flag is
\* LOCKED in every later state, no other context acquires the Mutex, and
\* no error reaches the other contexts: none of them panics, they return
\* from a call they had released, end, or stay in the retry loop.
C7_StuckForEver ==
    /\ [](\A t \in Ctx : Stuck(t) =>
            /\ locked = LOCKED
            /\ \A u \in Ctx \ {t} :
                /\ ~Holds(u)
                /\ pc[u] \in {"loop", "done", "cas", "poll", "ret"})
    /\ [][\A t \in Ctx : Stuck(t) => Stuck(t)' /\ locked' = LOCKED]_vars

\* A body has panicked while holding the Mutex and another context, which
\* called with_lock, polls the flag.
C7_Witness ==
    \E t, u \in Ctx :
        /\ t # u
        /\ pc[t] = "panicked"
        /\ pc[u] = "poll"
        /\ locked = LOCKED

\* The two orders named in main.rs:129 and main.rs:131.
OrderOne == <<"tx", "t1", "ty", "t2">>
OrderTwo == <<"tx", "ty", "t1", "t2">>

\* The observers whose check of the other flag read true.
SawOther == {o \in Observers : chk[o]}

\* C8. In the two-flag experiment z is 0, 1 or 2 in every reachable state,
\* each observer having incremented it at most once, and so is the value
\* main reads after joining both observers.
C8_ZRange ==
    /\ z \in {0, 1, 2}
    /\ z = Cardinality({o \in Observers : chk[o] /\ fpc[o] = "done"})
    /\ fpc["main"] = "done" => zMain = z /\ zMain \in {0, 1, 2}

\* main has read 2 after the order tx, ty, t1, t2.
C8_Witness == fpc["main"] = "done" /\ zMain = 2 /\ order = OrderTwo

----------------------------------------------------------------------------
\* main.rs:169-170: too_relaxed has both results.
RelaxedDone == rpc["main"] = "done"

\* The newest write of counter l.
Newest(l) == rmem[l][Len(rmem[l])]

C12_ModificationOrder ==
    /\ [](\A l \in Locs :
            /\ \A i \in 1..Len(rmem[l]) : rmem[l][i] \in {0, 42}
            /\ \A i, j \in 1..Len(rmem[l]) :
                    i < j /\ rmem[l][i] = 42 => rmem[l][j] = 42)
    /\ [](reg["t2"] = 42 => reg["t1"] = 42 /\ Newest("x") = 42)
    /\ [][\A l \in Locs : Newest(l) = 42 => Newest(l)' = 42]_vars

\* The experiment has returned r1 = 42 and r2 = 42.
C12_Witness ==
    /\ RelaxedDone
    /\ r1 = 42
    /\ r2 = 42
    /\ rmem["x"] = <<0, 42>>
    /\ rmem["y"] = <<0, 42>>

----------------------------------------------------------------------------
\* C13: the retry has two tiers.  A compare-exchange that does not succeed
\* sends its context to the inner loop; a context leaves the inner loop only
\* to the compare-exchange and only by a load that returned UNLOCKED, so
\* while the loads return LOCKED it performs only loads; and a context
\* arrives at a compare-exchange only from such a load or at the start of a
\* with_lock call.
C13_TwoTierRetry ==
    [][\A t \in Threads :
        /\ pc[t] = "cas" /\ pc'[t] # "cas" =>
                \/ pc'[t] = "poll" /\ locked' = locked
                \/ pc'[t] = "store_locked" /\ locked = UNLOCKED
        /\ pc[t] = "poll" /\ pc'[t] # "poll" =>
                pc'[t] = "cas" /\ locked = UNLOCKED
        /\ pc[t] # "cas" /\ pc'[t] = "cas" =>
                \/ pc[t] = "poll" /\ locked = UNLOCKED
                \/ Len(frames'[t]) = Len(frames[t]) + 1]_vars

\* A context whose compare-exchange failed is in the inner loop and its
\* next load returns UNLOCKED, after another context has completed a call.
C13_Witness ==
    \E t, u \in Ctx :
        /\ t # u
        /\ pc[t] = "poll"
        /\ locked = UNLOCKED
        /\ calls[u] >= 1

\* C14: a failed compare-exchange and a polling load change nothing but the
\* position of their context: flag, payload, views, results and call
\* records stay as they are and no error state is entered; every step that
\* changes the flag or the payload is taken by a context that is not
\* waiting or is ending its wait with a successful compare-exchange.
C14_WaitingChangesNothing ==
    [][/\ \A t \in Threads :
            Waiting(t) /\ pc'[t] # pc[t] /\ pc'[t] # "store_locked" =>
                /\ Waiting(t)'
                /\ UNCHANGED <<locked, lockedRel, vHist, seen, frames, calls,
                               tmp, out, relVal, race>>
       /\ locked' # locked \/ vHist' # vHist =>
            \E t \in Threads :
                /\ pc'[t] # pc[t]
                /\ ~Waiting(t) \/ pc'[t] = "store_locked"]_vars

\* A context is in the inner loop after a failed compare-exchange while
\* another context is inside the closure and payload writes exist.
C14_Witness ==
    \E t, u \in Ctx :
        /\ t # u
        /\ pc[t] = "poll"
        /\ InBody(u)
        /\ Len(vHist) > 1

\* C15: the store of LOCKED at line 59 is redundant: whenever a context is
\* about to execute it the flag is LOCKED already, the store leaves the
\* flag's value as it was, and so it never locks a flag that another
\* context has released.
C15_StoreLockedRedundant ==
    /\ [](\A t \in Threads : pc[t] = "store_locked" => locked = LOCKED)
    /\ [][\A t \in Threads :
            pc[t] = "store_locked" /\ pc'[t] # "store_locked" =>
                locked = LOCKED /\ locked' = LOCKED]_vars

\* A context is about to execute the store of line 59 after an earlier
\* release, with another context waiting.
C15_Witness ==
    \E t, u \in Ctx :
        /\ t # u
        /\ pc[t] = "store_locked"
        /\ Waiting(u)
        /\ relVal # 0

----------------------------------------------------------------------------
\* The lock that retries the compare-exchange directly is with_lock without
\* line 35: a failed compare-exchange leaves its context at the while
\* condition.  DirectPc is the position a context of the polling lock has
\* in that lock.
DirectPc == [t \in Threads |-> IF pc[t] = "poll" THEN "cas" ELSE pc[t]]

C17_TwoStateMachine ==
    /\ locked = UNLOCKED
    /\ [](locked \in {LOCKED, UNLOCKED})
    /\ [][locked = UNLOCKED /\ locked' = LOCKED =>
            \E t \in Threads : pc[t] = "cas" /\ pc'[t] = "store_locked"]_vars
    /\ [][locked = LOCKED /\ locked' = UNLOCKED =>
            \E t \in Threads : pc[t] = "release" /\ pc'[t] = "ret"]_vars
    /\ [][\A t \in Threads :
            pc[t] = "release" /\ pc'[t] = "ret" => locked' = UNLOCKED]_vars
    /\ [](\A t \in Threads :
            pc[t] = "cas" /\ locked = UNLOCKED => ENABLED CasAcquire(t))
    /\ (locked = LOCKED) ~> (locked = UNLOCKED)

\* The flag is LOCKED again after a release: a context holds it and another
\* has completed a call.
C17_Witness ==
    \E t, u \in Ctx :
        /\ t # u
        /\ Holds(t)
        /\ locked = LOCKED
        /\ calls[u] >= 1

\* C18: the flag is LOCKED exactly when exactly one context is between its
\* successful compare-exchange and its release store, and the step that
\* sets it UNLOCKED is the release store of that holder, never a step of a
\* waiting context.
C18_LockedIffOneHolder ==
    /\ [](locked = LOCKED <=>
            Cardinality({t \in Threads : Holds(t)}) = 1)
    /\ [](Cardinality({t \in Threads : Holds(t)}) <= 1)
    /\ [][locked = LOCKED /\ locked' = UNLOCKED =>
            \E t \in Threads :
                /\ Holds(t)
                /\ ~Holds(t)'
                /\ pc[t] = "release"
                /\ \A u \in Threads \ {t} : pc'[u] = pc[u]]_vars

\* The holder is about to execute the release store while another context
\* waits.
C18_Witness ==
    \E t, u \in Ctx :
        /\ t # u
        /\ Holds(t)
        /\ pc[t] = "release"
        /\ Waiting(u)
        /\ locked = LOCKED

----------------------------------------------------------------------------
\* main.rs:94, 98: true has been stored to flag l.
Stored(l) == \E i \in 1..Len(mem[l]) : mem[l][i].val

\* C19: an observer is past its spin loop only after the producer of its
\* own flag has stored true; as long as that store has not happened every
\* step of the observer leaves it in the spin loop; a check that found the
\* other flag true is after that flag's store; and z is incremented, by
\* one, only in states where both x and y have been stored true.
C19_ObserverAfterProducer ==
    /\ [](\A o \in Observers :
            /\ fpc[o] \in {"check", "incr", "done"} => Stored(Own(o))
            /\ fpc[o] = "incr" => Stored(Other(o)))
    /\ [][\A o \in Observers :
            fpc[o] = "spin" /\ ~Stored(Own(o)) => fpc'[o] = "spin"]_vars
    /\ [][z' # z => /\ z' = z + 1
                    /\ Stored("x")
                    /\ Stored("y")]_vars

\* t1 is about to increment z while t2 is still in its spin loop.
C19_Witness ==
    /\ fpc["t1"] = "incr"
    /\ fpc["t2"] = "spin"
    /\ Stored("x")
    /\ Stored("y")

\* main.rs:141, 149-151: every context has made all its calls and ended.
AllDone == \A t \in Ctx : pc[t] = "done" /\ calls[t] = MCalls

\* C20: mutex_test does not deadlock.  With a fair scheduler and a
\* compare-exchange that does not fail spuriously for ever, whenever the
\* flag is UNLOCKED while some context is trying to acquire, some context
\* eventually holds the lock; and eventually every context has finished all
\* its calls, at which point the flag is UNLOCKED.
C20_DeadlockFree ==
    /\ (locked = UNLOCKED /\ \E t \in Threads : Waiting(t))
            ~> (\E t \in Threads : Holds(t))
    /\ <>(AllDone /\ locked = UNLOCKED)
    /\ [](AllDone /\ pc[Main] = "join" => locked = UNLOCKED)

\* Every context has finished all its calls, main has not yet called
\* with_lock, and the flag is UNLOCKED.
C20_Witness ==
    /\ AllDone
    /\ pc[Main] = "join"
    /\ locked = UNLOCKED
    /\ V = NCtx * MCalls

====
